---- MODULE Spec2Model ----
(***************************************************************************)
(* Model of the AI gateway worker (src/cfapi/_worker.js): path validation, *)
(* credential extraction, the D1 round-robin counter, the rotation retry   *)
(* loop, pass-through forwarding, CORS stamping and Analytics Engine       *)
(* logging.  Strings the code inspects character by character (credentials,*)
(* the Authorization header, ROTATION_LIMIT) are sequences of characters;  *)
(* the JSON text of a *_KEYS variable is a sequence of JSON tokens.        *)
(***************************************************************************)
EXTENDS Integers, Sequences, FiniteSets, TLC

\* ------------------------------------------------------------------ bounds
\* Largest credential pool configured for a provider.
MaxPool == 3
\* Number of requests sent to the worker in the concurrent workload.
MaxRequests == 3

\* The isolates' concurrent request handlers.
Slots == {"w1", "w2"}

\* --------------------------------------------------------------- constants
NoRow == -1
DefaultRotationLimit == 5
BearerPrefixLen == 7
StatusBadUrl == 325
StatusNoKeys == 326
StatusRateLimited == 429
StatusError == 500
StatusNoContent == 204

\* ---------------------------------------------------------------- strings
BearerPrefix == <<"B", "e", "a", "r", "e", "r", " ">>
DigitChars == <<"0", "1", "2", "3", "4", "5", "6", "7", "8", "9">>
IsDigit(c) == \E i \in 1..10 : DigitChars[i] = c

\* String.prototype.startsWith
StartsWith(s, p) == Len(s) >= Len(p) /\ SubSeq(s, 1, Len(p)) = p
\* String.prototype.substring(k)
Substring(s, k) == SubSeq(s, k + 1, Len(s))

\* An environment variable or header: absent, or present with a value.
Unset == [set |-> FALSE, val |-> <<>>]
Val(v) == [set |-> TRUE, val |-> v]
\* JavaScript truthiness of a string-or-undefined value.
Truthy(x) == x.set /\ x.val # <<>>

Min(a, b) == IF a <= b THEN a ELSE b

\* ------------------------------------------------------------ ROUTE_MAP
ROUTE_MAP == [cerebras |-> "api.cerebras.ai",
              claude |-> "api.anthropic.com",
              gemini |-> "generativelanguage.googleapis.com",
              groq |-> "api.groq.com",
              openai |-> "api.openai.com"]

\* ROUTE_MAP is a plain object literal: a bracket lookup also finds the
\* properties inherited from Object.prototype, whose values are truthy.
\* These four stand for all of them.
ObjectPrototypeKeys == {"constructor", "toString", "valueOf", "hasOwnProperty"}

\* The host the worker itself is served from (url.hostname on entry).
WorkerHost == "worker.example"

\* A path segment is the sequence of its pieces: each colon is a piece of
\* its own, the texts between colons are the other pieces.  A segment
\* without a colon has one piece, the empty segment none.
Colon == ":"

\* !!ROUTE_MAP[seg]: no property name of ROUTE_MAP holds a colon.
RouteTruthy(seg) ==
    Len(seg) = 1 /\ (seg[1] \in DOMAIN ROUTE_MAP \/ seg[1] \in ObjectPrototypeKeys)

\* url.hostname = ROUTE_MAP[service]: a value that is no valid host (a
\* function or object coerced to a string) leaves the hostname as it was.
TargetHost(service) ==
    IF service \in DOMAIN ROUTE_MAP THEN ROUTE_MAP[service] ELSE WorkerHost

\* url.pathname.split('/').filter(Boolean)
PathSegments(rawSegs) == SelectSeq(rawSegs, LAMBDA s : s # <<>>)

\* `${service.toUpperCase()}_KEYS`
KeysVarName(service) ==
    CASE service = "cerebras" -> "CEREBRAS_KEYS"
      [] service = "claude" -> "CLAUDE_KEYS"
      [] service = "gemini" -> "GEMINI_KEYS"
      [] service = "groq" -> "GROQ_KEYS"
      [] service = "openai" -> "OPENAI_KEYS"
      [] service = "constructor" -> "CONSTRUCTOR_KEYS"
      [] service = "toString" -> "TOSTRING_KEYS"
      [] service = "valueOf" -> "VALUEOF_KEYS"
      [] service = "hasOwnProperty" -> "HASOWNPROPERTY_KEYS"
      [] OTHER -> "OTHER_KEYS"

KeysVarNames ==
    {"CEREBRAS_KEYS", "CLAUDE_KEYS", "GEMINI_KEYS", "GROQ_KEYS", "OPENAI_KEYS",
     "CONSTRUCTOR_KEYS", "TOSTRING_KEYS", "VALUEOF_KEYS",
     "HASOWNPROPERTY_KEYS", "OTHER_KEYS"}

\* ------------------------------------------------------------- parseInt
NaN == [nan |-> TRUE, n |-> 0]
Num(k) == [nan |-> FALSE, n |-> k]

\* The digits of radix 16, lower and upper case.
HexChars == DigitChars \o <<"a", "b", "c", "d", "e", "f">>
UpperHexChars == <<"A", "B", "C", "D", "E", "F">>
\* White space and line terminators parseInt skips (those the inputs use).
WhiteSpaceChars == {" ", "\t", "\n", "\r", "\f"}

\* Is c a digit of the radix (10 or 16)?
IsRadixDigit(c, radix) ==
    IF radix = 10 THEN IsDigit(c)
    ELSE (\E i \in 1..16 : HexChars[i] = c) \/ (\E i \in 1..6 : UpperHexChars[i] = c)

RadixDigitVal(c) ==
    IF \E i \in 1..16 : HexChars[i] = c
    THEN (CHOOSE i \in 1..16 : HexChars[i] = c) - 1
    ELSE (CHOOSE i \in 1..6 : UpperHexChars[i] = c) + 9

RECURSIVE DigitsValue(_, _, _, _)
\* value of the longest run of digits of the radix in s starting at i
DigitsValue(s, i, acc, radix) ==
    IF i > Len(s) \/ ~IsRadixDigit(s[i], radix) THEN acc
    ELSE DigitsValue(s, i + 1, acc * radix + RadixDigitVal(s[i]), radix)

RECURSIVE SkipSpaces(_, _)
\* first position at or after i that holds no white space
SkipSpaces(s, i) ==
    IF i <= Len(s) /\ s[i] \in WhiteSpaceChars THEN SkipSpaces(s, i + 1) ELSE i

\* parseInt(s) with no radix argument: leading white space, an optional
\* sign, an optional 0x or 0X selecting radix 16, then the longest run of
\* digits of the radix; NaN if that run is empty.
ParseInt(s) ==
    LET first == SkipSpaces(s, 1)
        neg == first <= Len(s) /\ s[first] = "-"
        signed == first <= Len(s) /\ (s[first] = "-" \/ s[first] = "+")
        afterSign == IF signed THEN first + 1 ELSE first
        hex == /\ afterSign + 1 <= Len(s) /\ s[afterSign] = "0"
               /\ s[afterSign + 1] \in {"x", "X"}
        radix == IF hex THEN 16 ELSE 10
        start == IF hex THEN afterSign + 2 ELSE afterSign
    IN IF start > Len(s) \/ ~IsRadixDigit(s[start], radix) THEN NaN
       ELSE LET v == DigitsValue(s, start, 0, radix)
            IN Num(IF neg THEN 0 - v ELSE v)

\* Math.min(a, b) where a may be NaN and b is a number
MathMin(a, b) == IF a.nan THEN NaN ELSE Num(Min(a.n, b))

\* the loop test  retryCount < maxRetries  (false when maxRetries is NaN)
LessThan(i, m) == ~m.nan /\ i < m.n

\* ----------------------------------------------------------- JSON.parse
Tok(t) == [t |-> t, v |-> <<>>]
Str(v) == [t |-> "str", v |-> v]

ObjectObject ==
    <<"[", "o", "b", "j", "e", "c", "t", " ", "O", "b", "j", "e", "c", "t", "]">>

\* Array.prototype.join(','), each element already a string
RECURSIVE JoinComma(_)
JoinComma(elems) ==
    IF elems = <<>> THEN <<>>
    ELSE IF Len(elems) = 1 THEN elems[1]
    ELSE elems[1] \o <<",">> \o JoinComma(Tail(elems))

ParseFailed == [ok |-> FALSE, next |-> 0, str |-> <<>>, elems |-> <<>>]

RECURSIVE ParseValue(_, _)
RECURSIVE ParseElements(_, _, _)
\* One JSON value starting at token i: a string, {} or an array of values.
\* next is the position after it, str its conversion to a string (what a
\* header set from it holds), elems the strings of an array's elements.
ParseValue(toks, i) ==
    IF i > Len(toks) THEN ParseFailed
    ELSE IF toks[i].t = "str"
    THEN [ok |-> TRUE, next |-> i + 1, str |-> toks[i].v, elems |-> <<>>]
    ELSE IF toks[i].t = "{"
    THEN (IF i + 1 <= Len(toks) /\ toks[i + 1].t = "}"
          THEN [ok |-> TRUE, next |-> i + 2, str |-> ObjectObject, elems |-> <<>>]
          ELSE ParseFailed)
    ELSE IF toks[i].t = "["
    THEN (IF i + 1 <= Len(toks) /\ toks[i + 1].t = "]"
          THEN [ok |-> TRUE, next |-> i + 2, str |-> <<>>, elems |-> <<>>]
          ELSE ParseElements(toks, i + 1, <<>>))
    ELSE ParseFailed

\* The elements of an array from token i on:  value , value ... ]
ParseElements(toks, i, acc) ==
    LET v == ParseValue(toks, i)
    IN IF ~v.ok \/ v.next > Len(toks) THEN ParseFailed
       ELSE IF toks[v.next].t = "]"
       THEN [ok |-> TRUE, next |-> v.next + 1,
             str |-> JoinComma(Append(acc, v.str)), elems |-> Append(acc, v.str)]
       ELSE IF toks[v.next].t = ","
       THEN ParseElements(toks, v.next + 1, Append(acc, v.str))
       ELSE ParseFailed

\* Is the token sequence one JSON value and nothing more?
JsonValid(toks) ==
    LET v == ParseValue(toks, 1) IN v.ok /\ v.next = Len(toks) + 1

\* JSON.parse(text): throws on invalid text, else the value; for an array
\* the list of its elements, each as the string `${element}` gives.
JsonParse(toks) ==
    IF ~JsonValid(toks) THEN [ok |-> FALSE, isArray |-> FALSE, elems |-> <<>>]
    ELSE [ok |-> TRUE, isArray |-> toks[1].t = "[",
          elems |-> IF toks[1].t = "[" THEN ParseValue(toks, 1).elems ELSE <<>>]

\* --------------------------------------------------------- extractApiKey
\* The credential the caller supplied in the place the provider reads it,
\* or Unset (null).
extractApiKey(request, service) ==
    CASE service = "gemini" ->
           IF Truthy(request.goog) THEN Val(request.goog.val)
           ELSE IF Truthy(request.key) THEN Val(request.key.val)
           ELSE Unset
      [] service = "claude" ->
           IF Truthy(request.xapi) THEN Val(request.xapi.val) ELSE Unset
      [] OTHER ->
           IF request.auth.set /\ StartsWith(request.auth.val, BearerPrefix)
           THEN Val(Substring(request.auth.val, BearerPrefixLen))
           ELSE Unset

\* requestApiKey === masterKey, under  if (masterKey)
MatchesAlways(masterKey, requestApiKey) == Truthy(masterKey)

RotationSelected(masterKey, requestApiKey) ==
    Truthy(masterKey) /\ requestApiKey.set /\ requestApiKey.val = masterKey.val

\* ------------------------------------------------------- getNextKeyIndex
\* INSERT ... VALUES (?1, 1, ...) ON CONFLICT DO UPDATE
\*   SET next_index = (next_index + 1) % ?2  RETURNING next_index
Upsert(row, keysCount) ==
    IF row = NoRow THEN 1 ELSE (row + 1) % keysCount

StoreRowEveryService(table, service, row) == [p \in DOMAIN table |-> row]

\* The statement writes the one row whose service_name is ?1 (the primary
\* key named in ON CONFLICT).
StoreRow(table, service, row) == [table EXCEPT ![service] = row]

\* const nextIndex = results[0]?.next_index || 1;
\* return (nextIndex - 1 + keysCount) % keysCount;
IndexFromRow(next_index, keysCount) ==
    LET nextIndex == IF next_index = 0 THEN 1 ELSE next_index
    IN (nextIndex - 1 + keysCount) % keysCount

\* ------------------------------------------------------ rotation helpers
\* env.ROTATION_LIMIT ? parseInt(env.ROTATION_LIMIT) : 5
RotationLimit(v) == IF Truthy(v) THEN ParseInt(v.val) ELSE Num(DefaultRotationLimit)

\* Math.min(rotationLimit, serviceKeys.length)
MaxRetries(rotationLimit, keysCount) == MathMin(rotationLimit, keysCount)

NextIndexStuck(currentIndex, keysCount) == currentIndex

\* currentIndex = (currentIndex + 1) % serviceKeys.length
NextIndex(currentIndex, keysCount) == (currentIndex + 1) % keysCount

\* ------------------------------------------------------------ credentials
MasterKey == <<"M">>
UserKey == <<"u">>
PoolKey(i) == <<"k", DigitChars[i + 1]>>
Bearer(k) == BearerPrefix \o k

RECURSIVE PoolTail(_, _)
PoolTail(i, n) ==
    IF i > n THEN <<Tok("]")>>
    ELSE <<Tok(","), Str(PoolKey(i))>> \o PoolTail(i + 1, n)

\* The JSON text  ["k1", ..., "kn"]  of a *_KEYS variable, n >= 1.
PoolJson(n) == <<Tok("["), Str(PoolKey(1))>> \o PoolTail(2, n)

\* -------------------------------------------------------------- responses
NoCors == [origin |-> "", methods |-> "", headers |-> ""]
PermissiveCors ==
    [origin |-> "*",
     methods |-> "GET, POST, PUT, DELETE, PATCH, OPTIONS",
     headers |-> "Content-Type, Authorization, x-api-key, x-goog-api-key, anthropic-version, openai-organization"]
\* CORS headers an upstream may already have put on its response.
UpstreamCors == [origin |-> "https://app.example", methods |-> "", headers |-> ""]

\* A body: the attempt whose upstream response it is (0: written by the
\* worker) and, for the worker's own bodies, its text.
UpstreamBody(attempt) == [up |-> attempt, text |-> <<>>]
WorkerBody(text) == [up |-> 0, text |-> text]

Response(status, body, cors) == [status |-> status, body |-> body, cors |-> cors]
NoResponse == Response(0, WorkerBody(<<>>), NoCors)

\* applyCorsHeaders: stamps the three headers unless an
\* Access-Control-Allow-Origin header is already present.
applyCorsHeaders(response) ==
    IF response.cors.origin = "" THEN [response EXCEPT !.cors = PermissiveCors]
    ELSE response

\* ---------------------------------------------------------- error replies
\* new Error('D1数据库未配置').message, line 76
D1NotConfigured == <<"D1 not configured">>
\* e.message of the error a failing D1 statement throws
StatementFailed == <<"statement failed">>
\* new Error(`D1数据库错误: ${e.message}`).message, line 100
D1Error(message) == <<"D1 error">> \o message
\* e.message of the SyntaxError JSON.parse throws
JsonSyntaxError == <<"JSON syntax error">>

RotationErrorMasked(message) ==
    Response(StatusError, WorkerBody(<<"rotation config error">>), NoCors)

\* new Response(`轮询配置错误: ${e.message}`, { status: 500 }), line 304
RotationError(message) ==
    Response(StatusError, WorkerBody(<<"rotation config error">> \o message), NoCors)

handleOptionsBare == Response(StatusNoContent, WorkerBody(<<>>), NoCors)

handleOptions == Response(StatusNoContent, WorkerBody(<<>>), PermissiveCors)

\* ------------------------------------------------------- upstream requests
\* request.body: null, or a stream that can be handed on once; model is the
\* model field of its JSON text, empty when it has none or is no JSON.
NoBody == [present |-> FALSE, model |-> <<>>]
JsonBody(model) == [present |-> TRUE, model |-> model]

\* e.message of the TypeError new Request throws for a body already used
BodyAlreadyUsed == <<"body already used">>

\* Headers.set: the value must be a ByteString, is stripped of leading and
\* trailing HTTP white space, and must then hold no U+0000 and no line
\* break.
HttpWhitespace == {" ", "\t", "\n", "\r"}
\* Characters above U+00FF (those the inputs use).
WideChars == {"密", "钥"}

RECURSIVE StripLeading(_)
StripLeading(v) ==
    IF v # <<>> /\ v[1] \in HttpWhitespace THEN StripLeading(Tail(v)) ELSE v

RECURSIVE StripTrailing(_)
StripTrailing(v) ==
    IF v # <<>> /\ v[Len(v)] \in HttpWhitespace
    THEN StripTrailing(SubSeq(v, 1, Len(v) - 1)) ELSE v

Normalize(v) == StripTrailing(StripLeading(v))

IsByteString(v) == \A i \in 1..Len(v) : v[i] \notin WideChars

\* U+0000, written as the escape \0
Nul == "\\0"

ValidHeaderValue(v) == \A i \in 1..Len(v) : v[i] \notin {Nul, "\n", "\r"}

\* Can headers.set store the value, and what it stores.
HeadersSetOk(v) == IsByteString(v) /\ ValidHeaderValue(Normalize(v))
HeadersSet(v) == Val(Normalize(v))

\* e.message of the TypeError headers.set throws
InvalidHeaderValue == <<"invalid header value">>

\* The value lines 245, 252 and 259 hand to headers.set.
RotationHeaderValue(service, selectedKey) ==
    IF service \in {"gemini", "claude"} THEN selectedKey ELSE Bearer(selectedKey)

\* The request sent upstream for one rotation attempt (lines 240-269).
RotationRequest(request, service, selectedKey) ==
    [host |-> TargetHost(service), method |-> request.method,
     body |-> request.body.present,
     goog |-> IF service = "gemini"
              THEN HeadersSet(RotationHeaderValue(service, selectedKey))
              ELSE request.goog,
     xapi |-> IF service = "claude"
              THEN HeadersSet(RotationHeaderValue(service, selectedKey))
              ELSE request.xapi,
     auth |-> IF service \notin {"gemini", "claude"}
              THEN HeadersSet(RotationHeaderValue(service, selectedKey))
              ELSE request.auth,
     key |-> IF service = "gemini" THEN Unset ELSE request.key]

PassThroughRequestNoAuth(request, service) ==
    [host |-> TargetHost(service), method |-> request.method,
     body |-> request.body.present,
     goog |-> request.goog, xapi |-> request.xapi,
     auth |-> Unset, key |-> request.key]

\* The request sent upstream in pass-through mode (lines 310-315).
PassThroughRequest(request, service) ==
    [host |-> TargetHost(service), method |-> request.method,
     body |-> request.body.present,
     goog |-> request.goog, xapi |-> request.xapi,
     auth |-> request.auth, key |-> request.key]

\* What the upstream does with one call: a response, or the fetch throws.
Throw == [kind |-> "throw", status |-> 0, cors |-> NoCors]
Reply(status, cors) == [kind |-> "response", status |-> status, cors |-> cors]
UpstreamOutcomes ==
    {Reply(200, UpstreamCors), Reply(StatusRateLimited, NoCors),
     Reply(StatusError, NoCors), Throw}

\* ------------------------------------------------------- model extraction
\* 'unknown'
Unknown == <<"unknown">>

SplitColonHeadWhole(seg) == seg

RECURSIVE SplitColonHead(_)
\* pathSegments[3].split(':')[0]: the pieces before the first colon.
SplitColonHead(seg) ==
    IF seg = <<>> \/ seg[1] = Colon THEN <<>>
    ELSE <<seg[1]>> \o SplitColonHead(Tail(seg))

\* requestData.model (lines 135-157); a model name is a text like a segment.
ExtractModel(request, service, pathSegments, logs_binding) ==
    IF logs_binding = "unset" \/ request.method # "POST" THEN Unknown
    ELSE IF service = "gemini"
    THEN IF Len(pathSegments) >= 4 /\ pathSegments[3] = <<"models">>
         THEN (IF SplitColonHead(pathSegments[4]) = <<>> THEN Unknown
               ELSE SplitColonHead(pathSegments[4]))
         ELSE Unknown
    ELSE IF request.body.model = <<>> THEN Unknown ELSE request.body.model

\* ------------------------------------------------------------------ state
VARIABLES
    env,              \* the bindings and variables of the deployment
    inbox,            \* requests on their way to the worker
    h,                \* per handler: the invocation of fetch() it is running
    rotation_state,   \* D1 table: service_name -> next_index (NoRow: no row)
    handed,           \* per service: the indexes getNextKeyIndex has returned
    logs              \* data points written to the Analytics Engine

vars == <<env, inbox, h, rotation_state, handed, logs>>

\* every first path segment that passes validation
Services == DOMAIN ROUTE_MAP \cup ObjectPrototypeKeys

NoRequest ==
    [path |-> <<>>, method |-> "", goog |-> Unset, xapi |-> Unset,
     auth |-> Unset, key |-> Unset, body |-> NoBody]

Idle ==
    [pc |-> "idle", req |-> NoRequest, service |-> "",
     requestData |-> [service |-> "", model |-> <<>>],
     keys |-> <<>>, maxRetries |-> Num(0), result |-> NoRow, start |-> NoRow,
     currentIndex |-> 0, retryCount |-> 0, lastResponse |-> NoResponse,
     calls |-> <<>>, replies |-> <<>>, dbCalls |-> 0, logCalls |-> 0,
     response |-> NoResponse]

\* -------------------------------------------------------------- logRequest
\* The data point of logRequest (lines 343-362), without the latency.
DataPoint(requestData, status, error) ==
    [index |-> IF requestData.service = "" THEN "unknown" ELSE requestData.service,
     model |-> IF requestData.model = <<>> THEN Unknown ELSE requestData.model,
     error |-> error, status |-> status]

\* logRequest has no await: it runs to its end inside the call that
\* ctx.waitUntil wraps.  A throwing writeDataPoint is swallowed.
LogRequest(sink, requestData, status, error) ==
    IF env.LOGS = "ok" THEN Append(sink, DataPoint(requestData, status, error))
    ELSE sink

ReturnSinkFailureSurfaces(s, rec, response) ==
    LET out == IF env.LOGS = "throws"
               THEN Response(StatusError, WorkerBody(<<"sink failed">>), NoCors)
               ELSE response
    IN /\ h' = [h EXCEPT ![s] = [rec EXCEPT !.pc = "done", !.response = out,
                                            !.logCalls = IF env.LOGS # "unset" THEN 1 ELSE 0]]
       /\ logs' = IF env.LOGS # "unset"
                  THEN LogRequest(logs, rec.requestData, out.status, <<>>)
                  ELSE logs

ReturnUnlogged(s, rec, response) ==
    /\ h' = [h EXCEPT ![s] = [rec EXCEPT !.pc = "done", !.response = response]]
    /\ logs' = logs

\* fetch(), lines 160-168: the handler returned `response`.
Return(s, rec, response) ==
    /\ h' = [h EXCEPT ![s] = [rec EXCEPT !.pc = "done", !.response = response,
                                         !.logCalls = IF env.LOGS # "unset" THEN 1 ELSE 0]]
    /\ logs' = IF env.LOGS # "unset"
               THEN LogRequest(logs, rec.requestData, response.status, <<>>)
               ELSE logs

CaughtUnlogged(s, rec, message) ==
    /\ h' = [h EXCEPT ![s] = [rec EXCEPT
                !.pc = "done",
                !.response = Response(StatusError, WorkerBody(message), NoCors)]]
    /\ logs' = logs

\* fetch(), lines 170-180: the handler threw an error with this message.
Caught(s, rec, message) ==
    LET response == Response(StatusError, WorkerBody(message), NoCors)
    IN /\ h' = [h EXCEPT ![s] = [rec EXCEPT !.pc = "done", !.response = response,
                                            !.logCalls = IF env.LOGS # "unset" THEN 1 ELSE 0]]
       /\ logs' = IF env.LOGS # "unset"
                  THEN LogRequest(logs, rec.requestData, response.status, message)
                  ELSE logs

\* ---------------------------------------------------------- rotation loop
\* if (lastResponse.status !== 429): the response ends the loop
IsFinalOnlyOnSuccess(status) == status = 200

IsFinal(status) == status # StatusRateLimited

SynthesizedExhausted ==
    Response(StatusRateLimited, WorkerBody(<<"all keys exhausted">>), NoCors)

\* lastResponse = await fetch(proxyRequest), line 272: the assignment happens
\* only when the fetch resolves; a throw leaves lastResponse as it was.
Recorded(lastResponse, o, attempt) ==
    IF o.kind = "throw" THEN lastResponse
    ELSE Response(o.status, UpstreamBody(attempt), o.cors)

\* Lines 292-301: what the handler returns once the loop is left.
ExhaustedResponse(lastResponse) ==
    IF lastResponse # NoResponse /\ lastResponse.status = StatusRateLimited
    THEN applyCorsHeaders(lastResponse)
    ELSE SynthesizedExhausted

\* Lines 236-305 from the loop test on: issue the next attempt, or leave
\* the loop exhausted.  headers.set throws for a credential that is no
\* header value, and a body handed to an earlier attempt cannot be handed on
\* again: new Request (line 264) throws; both are caught at line 303.
Loop(s, rec) ==
    IF LessThan(rec.retryCount, rec.maxRetries)
          /\ ~HeadersSetOk(RotationHeaderValue(rec.service,
                                               rec.keys[rec.currentIndex + 1]))
    THEN Return(s, rec, RotationError(InvalidHeaderValue))
    ELSE IF LessThan(rec.retryCount, rec.maxRetries)
          /\ rec.req.body.present /\ rec.calls # <<>>
    THEN Return(s, rec, RotationError(BodyAlreadyUsed))
    ELSE IF LessThan(rec.retryCount, rec.maxRetries)
    THEN /\ h' = [h EXCEPT ![s] =
                    [rec EXCEPT !.pc = "attempt",
                                !.calls = Append(rec.calls,
                                    RotationRequest(rec.req, rec.service,
                                                    rec.keys[rec.currentIndex + 1]))]]
         /\ UNCHANGED logs
    ELSE Return(s, rec, ExhaustedResponse(rec.lastResponse))

\* ---------------------------------------------- handleRequestWithRotation
\* Lines 193-233 and 309-317: from entry to the first await (the D1
\* statement sent, or the pass-through fetch) or to the response returned
\* before.
Handle(s, rec) ==
    IF rec.req.method = "OPTIONS" THEN Return(s, rec, handleOptions)
    ELSE IF RotationSelected(env.MASTER_KEY, extractApiKey(rec.req, rec.service))
    THEN LET serviceKeysEnv == env.KEYS[KeysVarName(rec.service)]
             parsed == JsonParse(serviceKeysEnv.val)
             configured == [rec EXCEPT
                 !.keys = parsed.elems,
                 !.maxRetries = MaxRetries(RotationLimit(env.ROTATION_LIMIT),
                                           Len(parsed.elems))]
         IN IF ~Truthy(serviceKeysEnv)
            THEN Return(s, rec, Response(StatusNoKeys, WorkerBody(<<"no rotation keys">>), NoCors))
            ELSE IF ~parsed.ok
            THEN Return(s, rec, RotationError(JsonSyntaxError))
            ELSE IF ~parsed.isArray \/ Len(parsed.elems) = 0
            THEN Return(s, rec, Response(StatusNoKeys, WorkerBody(<<"no rotation keys">>), NoCors))
            ELSE IF env.DB = "unset"
            THEN Return(s, configured, RotationError(D1NotConfigured))
            ELSE /\ h' = [h EXCEPT ![s] = [configured EXCEPT !.pc = "db"]]
                 /\ UNCHANGED logs
    ELSE /\ h' = [h EXCEPT ![s] =
                    [rec EXCEPT !.pc = "passthrough",
                                !.calls = <<PassThroughRequest(rec.req, rec.service)>>]]
         /\ UNCHANGED logs

\* ---------------------------------------------------------------- actions
\* Does fetch() wait for the body of the cloned request (line 151)?
AwaitsJson(request, service, logs_binding) ==
    logs_binding # "unset" /\ request.method = "POST" /\ service # "gemini"

\* fetch(): a request arrives; validation, then either the wait for the
\* cloned request's body, or the rest of the model extraction and the
\* handler up to its first await.
Fetch(s) ==
    /\ h[s].pc \in {"idle", "done"}
    /\ inbox # <<>>
    /\ inbox' = Tail(inbox)
    /\ LET request == Head(inbox)
           pathSegments == PathSegments(request.path)
       IN IF Len(pathSegments) < 1 \/ ~RouteTruthy(pathSegments[1])
          THEN /\ h' = [h EXCEPT ![s] =
                          [Idle EXCEPT !.pc = "done", !.req = request,
                                       !.response = Response(StatusBadUrl,
                                           WorkerBody(<<"bad url format">>), NoCors)]]
               /\ UNCHANGED logs
          ELSE IF AwaitsJson(request, pathSegments[1][1], env.LOGS)
          THEN /\ h' = [h EXCEPT ![s] =
                          [Idle EXCEPT !.pc = "json", !.req = request,
                                       !.service = pathSegments[1][1],
                                       !.requestData = [service |-> pathSegments[1][1],
                                                        model |-> Unknown]]]
               /\ UNCHANGED logs
          ELSE Handle(s, [Idle EXCEPT
                   !.req = request,
                   !.service = pathSegments[1][1],
                   !.requestData = [service |-> pathSegments[1][1],
                                    model |-> ExtractModel(request, pathSegments[1][1],
                                                           pathSegments, env.LOGS)]])
    /\ UNCHANGED <<env, rotation_state, handed>>

\* clonedRequest.json() settles (lines 151-152): the model is taken from the
\* body and the handler runs up to its first await.
ClonedRequestJson(s) ==
    /\ h[s].pc = "json"
    /\ Handle(s, [h[s] EXCEPT
           !.requestData.model = ExtractModel(h[s].req, h[s].service,
                                              PathSegments(h[s].req.path), env.LOGS)])
    /\ UNCHANGED <<env, inbox, rotation_state, handed>>

\* D1 runs the statement of a waiting getNextKeyIndex (line 94): one atomic
\* upsert whose RETURNING row travels back to the handler, or a failure.
\* handed keeps, in the order the store ran the statements, the index each
\* returned row stands for (line 97).
StatementAll(s) ==
    /\ h[s].pc = "db"
    /\ LET row == Upsert(rotation_state[h[s].service], Len(h[s].keys))
       IN IF env.DB = "throws"
          THEN /\ h' = [h EXCEPT ![s] = [@ EXCEPT !.pc = "dbresult", !.dbCalls = @ + 1]]
               /\ UNCHANGED <<rotation_state, handed>>
          ELSE /\ rotation_state' = StoreRow(rotation_state, h[s].service, row)
               /\ handed' = [handed EXCEPT ![h[s].service] =
                                Append(@, IndexFromRow(row, Len(h[s].keys)))]
               /\ h' = [h EXCEPT ![s] = [@ EXCEPT !.pc = "dbresult", !.result = row,
                                                  !.dbCalls = @ + 1]]
    /\ UNCHANGED <<env, inbox, logs>>

\* getNextKeyIndex resumes with the statement's result (lines 94-101): the
\* index is derived from the returned row and the retry loop starts, or the
\* failure is rethrown and caught at line 303.
GetNextKeyIndex(s) ==
    /\ h[s].pc = "dbresult"
    /\ LET rec == h[s]
           index == IndexFromRow(rec.result, Len(rec.keys))
       IN IF env.DB = "throws"
          THEN Return(s, rec, RotationError(D1Error(StatementFailed)))
          ELSE Loop(s, [rec EXCEPT !.start = index, !.currentIndex = index])
    /\ UNCHANGED <<env, inbox, rotation_state, handed>>

\* The upstream answers the pending attempt of the rotation loop
\* (lines 271-290), and the loop goes on or ends.
RotationAttempt(s) ==
    /\ h[s].pc = "attempt"
    /\ \E o \in UpstreamOutcomes :
         LET rec == [h[s] EXCEPT
                 !.replies = Append(@, o),
                 !.lastResponse = Recorded(@, o, Len(h[s].calls))]
             moved == [rec EXCEPT
                 !.currentIndex = NextIndex(rec.currentIndex, Len(rec.keys)),
                 !.retryCount = @ + 1]
         IN IF o.kind = "response" /\ IsFinal(o.status)
            THEN Return(s, rec, applyCorsHeaders(rec.lastResponse))
            ELSE Loop(s, moved)
    /\ UNCHANGED <<env, inbox, rotation_state, handed>>

\* The upstream answers the single pass-through call (lines 317-320).
PassThrough(s) ==
    /\ h[s].pc = "passthrough"
    /\ \E o \in UpstreamOutcomes :
         LET rec == [h[s] EXCEPT !.replies = Append(@, o)]
             upstream == Response(o.status, UpstreamBody(Len(rec.calls)), o.cors)
         IN IF o.kind = "throw" THEN Caught(s, rec, <<"fetch failed">>)
            ELSE Return(s, rec, applyCorsHeaders(upstream))
    /\ UNCHANGED <<env, inbox, rotation_state, handed>>

Next ==
    \E s \in Slots :
        \/ Fetch(s)
        \/ ClonedRequestJson(s)
        \/ StatementAll(s)
        \/ GetNextKeyIndex(s)
        \/ RotationAttempt(s)
        \/ PassThrough(s)

\* ------------------------------------------------------------ deployments
ProviderKeysVars ==
    {"CEREBRAS_KEYS", "CLAUDE_KEYS", "GEMINI_KEYS", "GROQ_KEYS", "OPENAI_KEYS"}

\* A pool with more credentials than the default rotation limit.
LargePool == DefaultRotationLimit + 1

\* Values of a *_KEYS variable: unset, empty, cut-off JSON, JSON that is no
\* array, an empty array, and pools of 1..MaxPool credentials.
KeysValues ==
    {Unset, Val(<<>>),
     Val(<<Tok("["), Str(PoolKey(1)), Tok(",")>>),
     Val(<<Tok("{"), Tok("}")>>),
     Val(<<Str(PoolKey(1))>>),
     Val(<<Tok("["), Tok("]")>>)}
    \cup {Val(PoolJson(n)) : n \in 1..MaxPool}

LimitValues ==
    {Unset, Val(<<"0">>), Val(<<"1">>), Val(<<"2">>), Val(<<"-", "1">>), Val(<<"x">>)}

\* A limit written with white space and a hexadecimal prefix: parseInt
\* reads 2.
HexLimit == Val(<<"\t", "0", "x", "2">>)

\* A pool whose second element is no string.
MixedPool == Val(<<Tok("["), Str(PoolKey(1)), Tok(","), Tok("{"), Tok("}"), Tok("]")>>)

\* Pools whose credentials headers.set changes or rejects: white space
\* around a credential, an empty array for a credential, a line break,
\* U+0000 and characters above U+00FF in one.
PaddedPool ==
    Val(<<Tok("["), Str(<<" ">> \o PoolKey(1)), Tok(","),
          Str(PoolKey(2) \o <<" ">>), Tok("]")>>)
EmptyKeyPool ==
    Val(<<Tok("["), Str(PoolKey(1)), Tok(","), Tok("["), Tok("]"), Tok("]")>>)
LineBreakPool ==
    Val(<<Tok("["), Str(<<"k", "\n", "1">>), Tok(","), Str(PoolKey(1)), Tok("]")>>)
NulPool ==
    Val(<<Tok("["), Str(<<"k", Nul, "1">>), Tok(","), Str(PoolKey(1)), Tok("]")>>)
WidePool ==
    Val(<<Tok("["), Str(PoolKey(1)), Tok(","), Str(<<"密", "钥">>), Tok("]")>>)
OddPools == {MixedPool, PaddedPool, EmptyKeyPool, LineBreakPool, NulPool, WidePool}

Env(master, keys, limit, db, logsBinding) ==
    [MASTER_KEY |-> master, KEYS |-> keys, ROTATION_LIMIT |-> limit,
     DB |-> db, LOGS |-> logsBinding]

SameKeys(v) == [n \in KeysVarNames |-> IF n \in ProviderKeysVars THEN v ELSE Unset]

\* With MASTER_KEY set, every combination of the values above, the large
\* pool left to the default rotation limit, the hexadecimal limit and the
\* odd pools; without MASTER_KEY, where the handler reads none of the
\* rotation settings, no pool or a full one.
Envs ==
    {Env(Val(MasterKey), SameKeys(k), l, d, g) :
        k \in KeysValues, l \in LimitValues,
        d \in {"ok", "unset", "throws"}, g \in {"unset", "ok", "throws"}}
    \cup {Env(Val(MasterKey), SameKeys(Val(PoolJson(LargePool))), Unset, "ok", "unset"),
          Env(Val(MasterKey), SameKeys(Val(PoolJson(MaxPool))), HexLimit, "ok", "unset")}
    \cup {Env(Val(MasterKey), SameKeys(k), Unset, "ok", g) :
            k \in OddPools, g \in {"unset", "ok"}}
    \cup {Env(Unset, SameKeys(k), Unset, d, g) :
            k \in {Unset, Val(PoolJson(MaxPool))},
            d \in {"ok", "unset"}, g \in {"unset", "ok", "throws"}}

\* --------------------------------------------------------------- requests
\* Segments without a colon, from their texts.
Plain(texts) == [i \in 1..Len(texts) |-> IF texts[i] = "" THEN <<>> ELSE <<texts[i]>>]

GeminiModels == Plain(<<"", "gemini", "v1beta", "models">>)
OpenaiChat == Plain(<<"", "openai", "v1", "chat">>)
GenerateContent == <<"gemini-pro", Colon, "generateContent">>

\* url.pathname.split('/') of the request paths sent.
Paths ==
    {Plain(<<"", "">>),
     Plain(<<"", "zzz", "v1">>),
     Plain(<<"", "Gemini", "v1">>),
     Plain(<<"", "constructor", "v1">>),
     GeminiModels \o <<GenerateContent>>,
     Plain(<<"", "gemini", "models", "gemini-pro">>),
     GeminiModels \o <<<<"gemini-pro">>>>,
     Plain(<<"", "claude", "v1", "messages">>),
     OpenaiChat,
     Plain(<<"", "", "groq", "v1">>)}

\* Model segments with several colons, an empty name, a name of two pieces.
ColonSegments ==
    {<<"a", Colon, "b", Colon, "c">>, <<Colon, "generateContent">>, <<"x", Colon, "y">>}

\* Where a caller may put a credential: [goog, xapi, auth, key].
Credentials ==
    {<<Unset, Unset, Unset, Unset>>,
     <<Val(MasterKey), Unset, Unset, Unset>>,
     <<Val(UserKey), Unset, Unset, Unset>>,
     <<Unset, Val(MasterKey), Unset, Unset>>,
     <<Unset, Unset, Val(Bearer(MasterKey)), Unset>>,
     <<Unset, Unset, Val(Bearer(UserKey)), Unset>>,
     <<Unset, Unset, Val(MasterKey), Unset>>,
     <<Unset, Unset, Unset, Val(MasterKey)>>,
     <<Val(UserKey), Unset, Unset, Val(MasterKey)>>}

Request(path, method, c, body) ==
    [path |-> path, method |-> method, goog |-> c[1], xapi |-> c[2],
     auth |-> c[3], key |-> c[4], body |-> body]

\* Requests without a body, POST requests to openai and gemini with one,
\* and gemini POST requests with the other model segments.
RequestInputs ==
    {Request(p, m, c, NoBody) : p \in Paths, m \in {"GET", "POST", "OPTIONS"}, c \in Credentials}
    \cup {Request(OpenaiChat, "POST", c, b) :
            c \in Credentials, b \in {JsonBody(<<"gpt-4">>), JsonBody(<<>>)}}
    \cup {Request(GeminiModels \o <<GenerateContent>>, "POST", c, JsonBody(<<>>)) :
            c \in {<<Val(MasterKey), Unset, Unset, Unset>>, <<Val(UserKey), Unset, Unset, Unset>>}}
    \cup {Request(GeminiModels \o <<seg>>, "POST", <<Val(UserKey), Unset, Unset, Unset>>,
                  JsonBody(<<>>)) : seg \in ColonSegments}

\* ----------------------------------------------------------- specifications
\* The credential pool the deployment configures for a service (empty when
\* the variable does not hold a JSON array).
PoolOf(e, service) ==
    LET v == e.KEYS[KeysVarName(service)]
    IN IF Truthy(v) THEN JsonParse(v.val).elems ELSE <<>>

\* The rows earlier rotation requests of this deployment can have left for a
\* service: none, or any value the upsert produces for its pool size.
Rows(e, service) ==
    LET n == Len(PoolOf(e, service))
    IN IF Truthy(e.MASTER_KEY) /\ e.DB = "ok" /\ n >= 1
       THEN {NoRow, 1} \cup 0..(n - 1)
       ELSE {NoRow}

InitState ==
    /\ h = [s \in Slots |-> Idle]
    /\ \E r \in Rows(env, "openai") :
          rotation_state = [p \in Services |->
                              IF KeysVarName(p) \in ProviderKeysVars THEN r ELSE NoRow]
    /\ handed = [p \in Services |-> <<>>]
    /\ logs = <<>>

\* One request, any deployment.
Init ==
    /\ env \in Envs
    /\ inbox \in {<<r>> : r \in RequestInputs}
    /\ InitState

Spec == Init /\ [][Next]_vars

\* Concurrent workload: MaxRequests requests, handled by the handlers in any
\* interleaving, against one deployment with rotation fully configured.
ConcEnvs ==
    {Env(Val(MasterKey), SameKeys(Val(PoolJson(n))), Val(<<"2">>), "ok", "unset") :
        n \in {1, 2, MaxPool}}
    \cup {Env(Val(MasterKey), SameKeys(Val(PoolJson(1))), Val(<<"1">>), "ok", "ok")}

\* Rotation requests for two providers, and a pass-through request with a
\* body.
ConcRotationInputs ==
    {Request(GeminiModels, "GET", <<Val(MasterKey), Unset, Unset, Unset>>, NoBody),
     Request(OpenaiChat, "GET", <<Unset, Unset, Val(Bearer(MasterKey)), Unset>>, NoBody)}

ConcInputs ==
    ConcRotationInputs
    \cup {Request(OpenaiChat, "POST",
                  <<Unset, Unset, Val(Bearer(UserKey)), Unset>>, JsonBody(<<"gpt-4">>))}

\* The rotation requests in every order, after any first request.
InitConc ==
    /\ env \in ConcEnvs
    /\ inbox \in {q \in [1..MaxRequests -> ConcInputs] :
                    \A i \in 2..MaxRequests : q[i] \in ConcRotationInputs}
    /\ InitState

SpecConc == InitConc /\ [][Next]_vars

\* ================================================================ claims
\* Vocabulary of the claims.
Providers == {"cerebras", "claude", "gemini", "groq", "openai"}
Started(s) == h[s].pc # "idle"
\* the request passed validation and handleRequestWithRotation was entered
Entered(s) == h[s].pc \notin {"idle", "json"} /\ h[s].service # ""
Done(s) == h[s].pc = "done"
SegmentsOf(s) == PathSegments(h[s].req.path)
KnownProvider(s) ==
    Len(SegmentsOf(s)) >= 1 /\ \E p \in Providers : SegmentsOf(s)[1] = <<p>>
\* the request got an index from getNextKeyIndex and entered the retry loop
InRotation(s) == h[s].start # NoRow
\* the caller presented the master credential where the provider reads it
PresentsMaster(s) ==
    /\ Truthy(env.MASTER_KEY)
    /\ extractApiKey(h[s].req, h[s].service) = Val(env.MASTER_KEY.val)
\* the credential an upstream request carries in the provider's place
SentCredential(call, service) ==
    CASE service = "gemini" -> call.goog.val
      [] service = "claude" -> call.xapi.val
      [] OTHER -> Substring(call.auth.val, BearerPrefixLen)
PoolCredentials == {PoolKey(i) : i \in 1..9}
\* a pool credential as a header carries it: without the white space around
\* its header value
AsSent(key, service) ==
    IF service \in {"gemini", "claude"} THEN Normalize(key)
    ELSE Substring(Normalize(Bearer(key)), BearerPrefixLen)
\* the credentials of the request's pool, as a header carries them
PoolCredentialsOf(s) ==
    {AsSent(h[s].keys[i], h[s].service) : i \in 1..Len(h[s].keys)}
CarriesPoolCredential(call) ==
    \/ call.goog.val \in PoolCredentials
    \/ call.xapi.val \in PoolCredentials
    \/ call.key.val \in PoolCredentials
    \/ \E k \in PoolCredentials : call.auth.val = Bearer(k)
\* does the text hold this part
Contains(text, part) == \E i \in 1..Len(text) : text[i] = part
Is429(o) == o.kind = "response" /\ o.status = StatusRateLimited
IsOther(o) == o.kind = "response" /\ o.status # StatusRateLimited
\* no attempt of the request got a response other than 429
NoneOther(s) == \A i \in 1..Len(h[s].replies) : ~IsOther(h[s].replies[i])
\* the limit the deployment configures, as the handler reads it
Limit == RotationLimit(env.ROTATION_LIMIT)
\* the pool variable yields a non-empty list of credentials
PoolConfigured(service) ==
    LET v == env.KEYS[KeysVarName(service)]
    IN Truthy(v) /\ JsonParse(v.val).ok /\ JsonParse(v.val).isArray
       /\ Len(JsonParse(v.val).elems) >= 1

RECURSIVE StatusOfLoop(_, _, _, _, _, _)
\* The status a rotation request ends with, from attempt j on: 500 when the
\* credential of an attempt is no header value or a body would be sent a
\* second time, else the status of the first response other than 429, else
\* 429.
StatusOfLoop(request, keys, maxRetries, start, replies, j) ==
    LET service == PathSegments(request.path)[1][1]
        key == keys[((start + (j - 1)) % Len(keys)) + 1]
    IN IF ~LessThan(j - 1, maxRetries) THEN StatusRateLimited
       ELSE IF ~HeadersSetOk(RotationHeaderValue(service, key)) THEN StatusError
       ELSE IF request.body.present /\ j > 1 THEN StatusError
       ELSE IF j > Len(replies) THEN 0
       ELSE IF IsOther(replies[j]) THEN replies[j].status
       ELSE StatusOfLoop(request, keys, maxRetries, start, replies, j + 1)

\* The status a request ends with, told from the deployment's variables other
\* than LOGS, the request, the index the counter store handed out and the
\* outcomes of its upstream calls.
StatusWithoutLogs(e, request, start, replies) ==
    LET segs == PathSegments(request.path)
        service == segs[1][1]
        keysVar == e.KEYS[KeysVarName(service)]
        parsed == JsonParse(keysVar.val)
    IN IF Len(segs) < 1 \/ ~RouteTruthy(segs[1]) THEN StatusBadUrl
       ELSE IF request.method = "OPTIONS" THEN StatusNoContent
       ELSE IF RotationSelected(e.MASTER_KEY, extractApiKey(request, service))
       THEN (IF ~Truthy(keysVar) THEN StatusNoKeys
             ELSE IF ~parsed.ok THEN StatusError
             ELSE IF ~parsed.isArray \/ parsed.elems = <<>> THEN StatusNoKeys
             ELSE IF e.DB # "ok" THEN StatusError
             ELSE StatusOfLoop(request, parsed.elems,
                               MaxRetries(RotationLimit(e.ROTATION_LIMIT),
                                          Len(parsed.elems)),
                               start, replies, 1))
       ELSE IF replies[1].kind = "throw" THEN StatusError
       ELSE replies[1].status

\* C1: for a provider with a pool of n >= 1 credentials, any n consecutive
\* calls of getNextKeyIndex return every index of 0..n-1 exactly once.
C1_FullCycle ==
    \A p \in Providers :
        LET n == Len(PoolOf(env, p))
            hist == handed[p]
        IN n >= 1 =>
             \A i \in 1..(Len(hist) - n + 1) :
                 {hist[j] : j \in i..(i + n - 1)} = 0..(n - 1)

\* C2: in a rotation-mode request attempt i uses the pool credential at
\* index (start + i) mod poolSize, where start is the index of the request's
\* single getNextKeyIndex call, and no pool credential is tried twice; with
\* the limit unset (5) or a positive integer, the number of attempts never
\* exceeds min(limit, poolSize).
C2_AttemptSequence ==
    \A s \in Slots :
        InRotation(s) =>
            LET n == Len(h[s].keys)
                calls == h[s].calls
            IN /\ h[s].dbCalls = 1
               /\ \A i \in 1..Len(calls) :
                      SentCredential(calls[i], h[s].service)
                          = AsSent(h[s].keys[((h[s].start + (i - 1)) % n) + 1],
                                   h[s].service)
               /\ \A i, j \in 1..Len(calls) :
                      i # j => SentCredential(calls[i], h[s].service)
                                 # SentCredential(calls[j], h[s].service)
               /\ ~Truthy(env.ROTATION_LIMIT) => Len(calls) <= Min(5, n)
               /\ (Truthy(env.ROTATION_LIMIT) /\ ~Limit.nan /\ Limit.n > 0)
                  => Len(calls) <= Min(Limit.n, n)

\* C2 witness: a rotation request that started at a non-zero index, made
\* three attempts and wrapped around the end of the pool.
C2_Witness ==
    \E s \in Slots :
        /\ InRotation(s) /\ h[s].start > 0 /\ Len(h[s].calls) = 3
        /\ SentCredential(h[s].calls[3], h[s].service) = h[s].keys[1]
        /\ h[s].keys[1] = PoolKey(1)

\* C3: a request whose first path segment is none of the five providers, or
\* whose path has no segment, is answered 325 with no upstream call, no
\* counter operation and no observability record.
C3_UnknownProviderRejected ==
    \A s \in Slots :
        Started(s) /\ ~KnownProvider(s) =>
            /\ Done(s)
            /\ h[s].response.status = StatusBadUrl
            /\ h[s].calls = <<>>
            /\ h[s].dbCalls = 0
            /\ h[s].logCalls = 0

\* C4: a request gets a counter operation or a pool credential only if
\* MASTER_KEY is configured and extractApiKey yields exactly MASTER_KEY;
\* every other valid non-OPTIONS request is passed through, with no pool
\* credential and no counter operation.
C4_RotationOnlyForMaster ==
    \A s \in Slots :
        Started(s) =>
            /\ (h[s].dbCalls > 0 \/ InRotation(s)
                  \/ \E i \in 1..Len(h[s].calls) : CarriesPoolCredential(h[s].calls[i]))
               => PresentsMaster(s)
            /\ (Entered(s) /\ h[s].req.method # "OPTIONS" /\ ~PresentsMaster(s))
               => /\ h[s].pc \in {"passthrough", "done"}
                  /\ h[s].dbCalls = 0
                  /\ ~InRotation(s)
                  /\ Len(h[s].calls) = 1
                  /\ ~CarriesPoolCredential(h[s].calls[1])

\* C4 witness: a request presenting the master credential was served in
\* rotation mode: the counter was advanced and a pool credential sent.
C4_Witness ==
    \E s \in Slots :
        /\ Done(s) /\ PresentsMaster(s) /\ InRotation(s) /\ h[s].dbCalls = 1
        /\ Len(h[s].calls) >= 1 /\ CarriesPoolCredential(h[s].calls[1])
        /\ h[s].response.status = 200

\* C5: when every attempt of a rotation loop got a 429 response, the
\* response returned has status 429 and the body of the last attempt.
C5_AllRateLimitedReturnsLast ==
    \A s \in Slots :
        (/\ Done(s) /\ InRotation(s) /\ Len(h[s].replies) >= 1
         /\ \A i \in 1..Len(h[s].replies) : Is429(h[s].replies[i]))
        => /\ h[s].response.status = StatusRateLimited
           /\ h[s].response.body = UpstreamBody(Len(h[s].replies))

\* C6: in a rotation loop an upstream response with a status other than 429
\* is the last attempt of the request and its status is the one returned.
C6_OtherStatusEndsLoop ==
    \A s \in Slots :
        InRotation(s) =>
            \A i \in 1..Len(h[s].replies) :
                IsOther(h[s].replies[i]) =>
                    /\ i = Len(h[s].calls)
                    /\ Done(s)
                    /\ h[s].response.status = h[s].replies[i].status

\* C6 witness: a 429, then an upstream error 500 that ended the loop with a
\* credential still untried.
C6_Witness ==
    \E s \in Slots :
        /\ Done(s) /\ InRotation(s) /\ Len(h[s].keys) = 3
        /\ Len(h[s].replies) = 2 /\ Len(h[s].calls) = 2
        /\ Is429(h[s].replies[1])
        /\ h[s].replies[2] = Reply(StatusError, NoCors)
        /\ h[s].response.status = StatusError

\* C7: a pass-through request makes exactly one upstream call, whatever the
\* outcome, carrying the caller's credential headers and query unchanged,
\* and makes no counter operation.
C7_PassThroughOnce ==
    \A s \in Slots :
        (Entered(s) /\ h[s].req.method # "OPTIONS" /\ ~PresentsMaster(s))
        => /\ Len(h[s].calls) = 1
           /\ h[s].calls[1].goog = h[s].req.goog
           /\ h[s].calls[1].xapi = h[s].req.xapi
           /\ h[s].calls[1].auth = h[s].req.auth
           /\ h[s].calls[1].key = h[s].req.key
           /\ Len(h[s].replies) = (IF Done(s) THEN 1 ELSE 0)
           /\ h[s].dbCalls = 0

\* C7 witness: a pass-through request with the caller's own bearer token was
\* answered 429 upstream and ended after that one call.
C7_Witness ==
    \E s \in Slots :
        /\ Done(s) /\ Truthy(env.MASTER_KEY) /\ ~PresentsMaster(s)
        /\ h[s].req.auth = Val(Bearer(UserKey))
        /\ Len(h[s].calls) = 1 /\ h[s].calls[1].auth = Val(Bearer(UserKey))
        /\ h[s].replies = <<Reply(StatusRateLimited, NoCors)>>
        /\ h[s].response.status = StatusRateLimited

\* C8: an OPTIONS request to a known provider is answered 204 with the
\* permissive CORS headers, with no upstream call and no counter operation.
C8_OptionsShortCircuit ==
    \A s \in Slots :
        (Started(s) /\ KnownProvider(s) /\ h[s].req.method = "OPTIONS")
        => /\ Done(s)
           /\ h[s].response.status = StatusNoContent
           /\ h[s].response.cors = PermissiveCors
           /\ h[s].calls = <<>>
           /\ h[s].dbCalls = 0

\* C8 witness: an OPTIONS request presenting the master credential, with a
\* pool configured, answered 204.
C8_Witness ==
    \E s \in Slots :
        /\ Done(s) /\ KnownProvider(s) /\ h[s].req.method = "OPTIONS"
        /\ PresentsMaster(s) /\ PoolConfigured(h[s].service) /\ env.DB = "ok"
        /\ h[s].response.status = StatusNoContent

\* C9: when the master credential is presented and the provider's pool
\* variable yields no non-empty list, the answer is 326, with no upstream
\* call and no counter operation.
C9_NoPoolIs326 ==
    \A s \in Slots :
        (Entered(s) /\ h[s].req.method # "OPTIONS"
           /\ PresentsMaster(s) /\ ~PoolConfigured(h[s].service))
        => /\ Done(s)
           /\ h[s].response.status = StatusNoKeys
           /\ h[s].calls = <<>>
           /\ h[s].dbCalls = 0

\* C10: every response returned carries Access-Control-Allow-Origin.
C10_EveryResponseHasCors ==
    \A s \in Slots : Done(s) => h[s].response.cors.origin # ""

\* C11: when the master credential is presented, the pool is configured and
\* the counter store is missing or its statement throws, the request ends
\* with a 500-class response whose body contains the cause message, the store
\* is called at most once (not at all when missing) and no upstream call is
\* made.
C11_StoreErrorAborts ==
    \A s \in Slots :
        (Entered(s) /\ h[s].req.method # "OPTIONS"
           /\ PresentsMaster(s) /\ PoolConfigured(h[s].service) /\ env.DB # "ok")
        => /\ h[s].calls = <<>>
           /\ h[s].dbCalls <= 1
           /\ h[s].result = NoRow
           /\ Done(s) =>
                 /\ h[s].response.status \in 500..599
                 /\ Contains(h[s].response.body.text,
                             IF env.DB = "unset" THEN D1NotConfigured[1]
                             ELSE StatementFailed[1])
                 /\ h[s].dbCalls = (IF env.DB = "throws" THEN 1 ELSE 0)

\* C11 witness: the D1 statement of a rotation request threw and the request
\* ended 500 after that single store call.
C11_Witness ==
    \E s \in Slots :
        /\ Done(s) /\ PresentsMaster(s) /\ PoolConfigured(h[s].service)
        /\ env.DB = "throws" /\ h[s].dbCalls = 1 /\ h[s].calls = <<>>
        /\ h[s].response.status = StatusError
        /\ Contains(h[s].response.body.text, StatementFailed[1])

\* C12: a rotation loop that ends without a non-429 upstream response
\* (every attempt rate-limited or thrown, in any mix, or no attempt at all)
\* answers 429, whether a 429 response was recorded or none was obtained.
C12_ExhaustionIs429 ==
    \A s \in Slots :
        (Done(s) /\ InRotation(s) /\ NoneOther(s))
        => h[s].response.status = StatusRateLimited

\* C13: with ROTATION_LIMIT unset the limit is 5; for a positive limit L and a
\* pool of n credentials, a rotation request whose attempts are all
\* rate-limited or thrown makes exactly min(L, n) upstream calls and answers
\* 429, also when L > n.
C13_ExactlyMinAttempts ==
    \A s \in Slots :
        LET L == IF env.ROTATION_LIMIT.set THEN Limit.n ELSE 5
            n == Len(h[s].keys)
        IN (Done(s) /\ InRotation(s) /\ NoneOther(s)
              /\ (env.ROTATION_LIMIT.set => ~Limit.nan /\ Limit.n > 0))
           => /\ Len(h[s].calls) = Min(L, n)
              /\ h[s].response.status = StatusRateLimited

\* C14: the status a request ends with is the same whether LOGS is not
\* configured, the sink accepts the record, or writeDataPoint throws: it is
\* determined by the rest of the deployment, the request, the index the
\* counter store handed out and the upstream's outcomes; a failing sink never makes the response an error.
C14_StatusIndependentOfLogs ==
    \A s \in Slots :
        Done(s) =>
            h[s].response.status
                = StatusWithoutLogs([env EXCEPT !.LOGS = "unset"], h[s].req,
                                    h[s].start, h[s].replies)

\* C14 witness: the sink threw on the record of a request that was answered
\* 200 by the upstream, and the caller got the 200.
C14_Witness ==
    \E s \in Slots :
        /\ Done(s) /\ env.LOGS = "throws" /\ h[s].logCalls = 1 /\ logs = <<>>
        /\ h[s].replies = <<Reply(200, UpstreamCors)>>
        /\ h[s].response.status = 200

\* C15 (as stated): a request answered 326 never produces an observability
\* record, even when LOGS is configured.
C15_NoRecordFor326 ==
    \A s \in Slots :
        (Done(s) /\ PresentsMaster(s) /\ h[s].response.status = StatusNoKeys)
        => h[s].logCalls = 0 /\ logs = <<>>

\* C15 (amended): a request answered 326 makes no upstream call; it produces
\* no observability record when LOGS is not configured and exactly one, with
\* status 326, when LOGS is configured.
C15_326LoggedWhenConfigured ==
    \A s \in Slots :
        (Done(s) /\ PresentsMaster(s) /\ h[s].response.status = StatusNoKeys)
        => /\ h[s].calls = <<>>
           /\ h[s].logCalls = (IF env.LOGS = "unset" THEN 0 ELSE 1)
           /\ Len(logs) = (IF env.LOGS = "ok" THEN 1 ELSE 0)
           /\ \A i \in 1..Len(logs) :
                  /\ logs[i].status = StatusNoKeys
                  /\ logs[i].index = h[s].service
                  /\ logs[i].error = <<>>

\* C15 witness: LOGS is configured, the pool variable is unset, the master
\* credential was presented, and the 326 was recorded.
C15_Witness ==
    \E s \in Slots :
        /\ Done(s) /\ PresentsMaster(s) /\ env.LOGS = "ok"
        /\ ~env.KEYS[KeysVarName(h[s].service)].set
        /\ h[s].response.status = StatusNoKeys
        /\ Len(logs) = 1 /\ logs[1].status = StatusNoKeys

\* C16: once getNextKeyIndex has run for a provider with a pool of n >= 1
\* credentials, the stored next_index is in 0..n-1, also for n = 1.
C16_CursorInRange ==
    \A p \in Providers :
        LET n == Len(PoolOf(env, p))
        IN (n >= 1 /\ handed[p] # <<>>) => rotation_state[p] \in 0..(n - 1)

\* C17: the stored counter of a provider changes only in the step in which
\* the store runs the single getNextKeyIndex statement of a request for that
\* provider, and that step applies the upsert once; a request that reaches
\* the retry loop has had exactly one such statement; its attempts, however
\* many, leave the stored counters unchanged, and no request changes another
\* provider's counter.
C17_CounterAdvancedOncePerRequest ==
    [][ /\ \A p \in Services :
             rotation_state'[p] # rotation_state[p]
             => \E s \in Slots :
                    /\ h'[s] # h[s] /\ h[s].service = p
                    /\ h[s].pc = "db" /\ h[s].dbCalls = 0 /\ h'[s].dbCalls = 1
                    /\ rotation_state'[p] = Upsert(rotation_state[p], Len(h[s].keys))
        /\ \A s \in Slots :
             (h'[s] # h[s] /\ h'[s].start # NoRow)
             => /\ h[s].dbCalls = 1 /\ h'[s].dbCalls = 1
                /\ rotation_state' = rotation_state
                /\ h[s].start # NoRow => h'[s].start = h[s].start
      ]_vars

\* C17 witness: an openai request on its second attempt after a thrown first
\* one, with the openai counter advanced once and a gemini request served too.
C17_Witness ==
    \E s \in Slots :
        /\ InRotation(s) /\ h[s].service = "openai" /\ h[s].dbCalls = 1
        /\ Len(h[s].calls) = 2 /\ h[s].replies[1] = Throw
        /\ Len(handed["openai"]) = 1 /\ Len(handed["gemini"]) = 1

\* the position in the pool of the credential a call carries
PoolIndexOf(s, call) ==
    CHOOSE k \in 0..(Len(h[s].keys) - 1) :
        AsSent(h[s].keys[k + 1], h[s].service) = SentCredential(call, h[s].service)

\* C18: a thrown upstream fetch does not end the rotation loop: while
\* attempts remain the next one is made with the credential at the next index
\* modulo the pool size; and when the loop is exhausted after at least one
\* 429 response, the response returned is the last 429 received, even when
\* later attempts threw.
C18_ThrowNotTerminal ==
    \A s \in Slots :
        InRotation(s) =>
            LET n == Len(h[s].keys)
                replies == h[s].replies
                limited == {i \in 1..Len(replies) : Is429(replies[i])}
                last == CHOOSE i \in limited : \A j \in limited : j <= i
            IN /\ \A i \in 1..Len(replies) :
                      replies[i] = Throw =>
                          IF LessThan(i, h[s].maxRetries)
                          THEN /\ Len(h[s].calls) >= i + 1
                               /\ PoolIndexOf(s, h[s].calls[i + 1])
                                    = (PoolIndexOf(s, h[s].calls[i]) + 1) % n
                          ELSE Done(s) /\ Len(h[s].calls) = i
               /\ (Done(s) /\ NoneOther(s) /\ limited # {})
                  => /\ h[s].response.status = StatusRateLimited
                     /\ h[s].response.body = UpstreamBody(last)

\* C19: for a request that passed path validation with LOGS configured,
\* logRequest hands exactly one record to the sink, on the normal and on the
\* exception path, not before the response is determined, and the record's
\* status is the status returned.
C19_ExactlyOneRecord ==
    \A s \in Slots :
        (Started(s) /\ h[s].service # "" /\ env.LOGS # "unset")
        => IF Done(s)
           THEN /\ h[s].logCalls = 1
                /\ env.LOGS = "ok" =>
                      /\ Len(logs) = 1
                      /\ logs[1].status = h[s].response.status
           ELSE h[s].logCalls = 0 /\ logs = <<>>

\* C19 witness: the pass-through fetch threw, the request ended 500 on the
\* exception path and one record with status 500 and the message was written.
C19_Witness ==
    \E s \in Slots :
        /\ Done(s) /\ env.LOGS = "ok" /\ h[s].replies = <<Throw>>
        /\ ~InRotation(s) /\ h[s].response.status = StatusError
        /\ Len(logs) = 1 /\ logs[1].status = StatusError
        /\ logs[1].error # <<>>

\* the model name a path segment <name> or <name>:<action> carries: the
\* colon-free start of the segment that ends the segment or is followed by a
\* colon
NameOf(seg) ==
    CHOOSE name \in {SubSeq(seg, 1, k) : k \in 0..Len(seg)} :
        /\ \A i \in 1..Len(name) : name[i] # ":"
        /\ Len(name) = Len(seg) \/ seg[Len(name) + 1] = ":"

\* C20 (as stated): with observability enabled, every gemini request whose
\* path has a segment `models` followed by <name> or <name>:<action> is
\* recorded with model <name>.
C20_GeminiModelFromPath ==
    \A s \in Slots :
        (Done(s) /\ env.LOGS = "ok" /\ h[s].service = "gemini")
        => \A i \in 1..(Len(SegmentsOf(s)) - 1) :
               (SegmentsOf(s)[i] = <<"models">> /\ NameOf(SegmentsOf(s)[i + 1]) # <<>>)
               => /\ Len(logs) = 1
                  /\ logs[1].model = NameOf(SegmentsOf(s)[i + 1])

\* C20 (amended): with observability enabled, every gemini POST request
\* whose third path segment is `models`, followed by <name> or
\* <name>:<action>, is recorded with model <name>; every other gemini request
\* is recorded with model `unknown`; the status returned is the one returned
\* without observability.
C20_GeminiPostModel ==
    \A s \in Slots :
        (Done(s) /\ env.LOGS = "ok" /\ h[s].service = "gemini")
        => LET segs == SegmentsOf(s)
               named == /\ h[s].req.method = "POST"
                        /\ Len(segs) >= 4 /\ segs[3] = <<"models">>
                        /\ NameOf(segs[4]) # <<>>
           IN /\ Len(logs) = 1
              /\ logs[1].model = (IF named THEN NameOf(segs[4]) ELSE <<"unknown">>)
              /\ h[s].response.status
                   = StatusWithoutLogs([env EXCEPT !.LOGS = "unset"],
                                       h[s].req, h[s].start, h[s].replies)

\* C20 witness: POST /gemini/v1beta/models/gemini-pro:generateContent in
\* pass-through mode, recorded with model gemini-pro.
C20_Witness ==
    \E s \in Slots :
        /\ Done(s) /\ env.LOGS = "ok" /\ ~PresentsMaster(s)
        /\ h[s].req.method = "POST"
        /\ SegmentsOf(s)
             = <<<<"gemini">>, <<"v1beta">>, <<"models">>,
                 <<"gemini-pro", ":", "generateContent">>>>
        /\ Len(h[s].calls) = 1
        /\ Len(logs) = 1 /\ logs[1].model = <<"gemini-pro">>

\* the master credential is in a place the provider accepts a credential in
MasterInAcceptedLocation(r, service) ==
    LET master == Val(env.MASTER_KEY.val)
    IN CASE service = "gemini" -> r.goog = master \/ r.key = master
         [] service = "claude" -> r.xapi = master
         [] OTHER -> r.auth = Val(Bearer(env.MASTER_KEY.val))

\* C21: with MASTER_KEY configured, when a request presents the master
\* credential in a place its provider accepts one, no upstream request made
\* for it carries the master credential in any of those places: each carries
\* a pool credential there, and for gemini no `key` query parameter.
C21_MasterNeverSentUpstream ==
    \A s \in Slots :
        (Started(s) /\ h[s].service # "" /\ Truthy(env.MASTER_KEY)
           /\ MasterInAcceptedLocation(h[s].req, h[s].service))
        => \A i \in 1..Len(h[s].calls) :
               /\ ~MasterInAcceptedLocation(h[s].calls[i], h[s].service)
               /\ SentCredential(h[s].calls[i], h[s].service) \in PoolCredentialsOf(s)
               /\ h[s].service = "gemini" => ~h[s].calls[i].key.set

\* C22: whatever ROTATION_LIMIT holds, a rotation request with a non-empty
\* pool and a working counter store has called the upstream at least once
\* when it answers.
C22_AtLeastOneAttempt ==
    \A s \in Slots :
        (Done(s) /\ InRotation(s)) => Len(h[s].calls) >= 1

====
